---------------------------- MODULE Spec2Model ----------------------------
(***************************************************************************)
(* A model of react-doc-viewer: the PDF interaction controller             *)
(* (src/src/renderers/PdfRenderer.tsx) and the viewer shell with its       *)
(* conversion orchestrator (src/src/DocumentViewer.tsx).                   *)
(*                                                                         *)
(* One action is one event-loop task: a handler together with the render   *)
(* and the effects React runs for the state it changed.  Text is a         *)
(* sequence of one-character strings.                                      *)
(***************************************************************************)
EXTENDS Integers, Sequences, FiniteSets, TLC

(***************************************************************************)
(* Bounds of the model.                                                    *)
(***************************************************************************)
MaxRuns == 2          \* text-extraction runs alive at once (live + superseded)
MaxReadyCalls == 2    \* the count of onViewerReady calls saturates here

(***************************************************************************)
(* Text: String.prototype.trim / toLowerCase / includes / Array.join.      *)
(***************************************************************************)
toLowerCaseChar(c) ==
    CASE c = "A" -> "a"
      [] c = "B" -> "b"
      [] c = "C" -> "c"
      [] OTHER -> c

\* a string is the sequence of its UTF-16 code units.  U+0130 (capital I with
\* dot above) is the one code unit whose lower case is two: i, U+0307
RECURSIVE toLowerCase(_)
toLowerCase(s) ==
    IF s = <<>> THEN <<>>
    ELSE (IF Head(s) = "U+0130" THEN <<"i", "U+0307">>
          ELSE <<toLowerCaseChar(Head(s))>>) \o toLowerCase(Tail(s))

RECURSIVE trimStart(_)
trimStart(s) == IF s # <<>> /\ Head(s) = " " THEN trimStart(Tail(s)) ELSE s

RECURSIVE trimEnd(_)
trimEnd(s) ==
    IF s # <<>> /\ s[Len(s)] = " " THEN trimEnd(SubSeq(s, 1, Len(s) - 1)) ELSE s

trim(s) == trimEnd(trimStart(s))

includes(hay, needle) ==
    \E i \in 0..(Len(hay) - Len(needle)) : SubSeq(hay, i + 1, i + Len(needle)) = needle

RECURSIVE join(_, _)
join(items, sep) ==
    IF items = <<>> THEN <<>>
    ELSE IF Len(items) = 1 THEN items[1]
    ELSE items[1] \o sep \o join(Tail(items), sep)

(***************************************************************************)
(* The documents the decoding collaborator can load: for each, the text    *)
(* items (str) of every page.  A and B have the same page count.           *)
(***************************************************************************)
Docs == {"A", "B", "C"}
NoDoc == "none"

DocPages(d) ==
    CASE d = "A" -> << << <<"a">>, <<"b">> >>,
                       << <<"A", "B">>, <<"c">> >> >>
      [] d = "B" -> << << <<"c">> >>,
                       << <<"a", " ">>, <<"b">> >> >>
      [] d = "C" -> << << <<"x">>, <<"a", "b">> >> >>
      [] OTHER -> << >>

DocNumPages(d) == Len(DocPages(d))



\* identities of the host's onViewerReady callback ("none": not supplied)
Callbacks == {"none", "cb1", "cb2"}


(***************************************************************************)
(* State of one PdfRenderer (useState / useRef), its props, the tasks it   *)
(* has in flight, and what the host holds.                                 *)
(***************************************************************************)
VARIABLES
    mounted,              \* a PdfRenderer instance is mounted
    pdfSrc,               \* prop src, as the document it denotes
    docLoaded,            \* <Document> has loaded pdfSrc and renders the pages
    pdfDocRef,            \* pdfDocRef.current
    numPages,             \* numPages, 0 for null
    currentPage,
    pageInputValue,
    searchQuery,
    searchMatches,
    searchIndex,
    scrollingToPage,      \* scrollingToPage.current
    timerPending,         \* some setTimeout(..., 500) callback of scrollToPage is pending
    ticking,              \* ticking of the installed scroll listener
    staleFramePending,    \* some frame callback of a removed scroll listener is pending
    onViewerReady,        \* prop options.onViewerReady
    viewerReadyCalledRef, \* viewerReadyCalledRef.current
    hostApi,              \* the viewerApi object the host received: what its
                          \* nextMatch / prevMatch closed over
    runs,                 \* text-extraction runs in flight
    readyCalls,           \* history: onViewerReady invocations of this mount
    published,            \* history: where the current searchMatches come from
    zoom,                 \* zoom, in hundredths
    zoomMode,
    containerWidth,       \* in px
    elementWidth,         \* contentRect.width of the viewer element, in px; 0
                          \* when the element is not laid out
    resizePending,        \* the connected ResizeObserver has a notification
                          \* to deliver
    lastClick             \* history: the last click on an anchor and what the
                          \* click listener did with it

pdfVars == << mounted, pdfSrc, docLoaded, pdfDocRef, numPages, currentPage,
              pageInputValue, searchQuery, searchMatches, searchIndex,
              scrollingToPage, timerPending, ticking, staleFramePending, onViewerReady,
              viewerReadyCalledRef, hostApi, runs, readyCalls, published,
              zoom, zoomMode, containerWidth, elementWidth, resizePending,
              lastClick >>

\* State of the DocumentViewer (useState / useRef / useMemo), its props, the
\* conversions it has in flight and the object URLs created so far
VARIABLES
    viewerMounted,            \* a DocumentViewer instance is mounted
    src,                      \* prop src
    mimeType,                 \* prop mimeType
    enableOCR,                \* options.enableOCR ?? false
    onRequestPdfConversion,   \* prop onRequestPdfConversion
    workerUrlOption,          \* options.conversionWorkerUrl as given
    onConversionError,        \* prop onConversionError
    url,                      \* normalizeSrcToUrl(src), memoised on src
    convertedPdfUrl,
    conversionError,
    convertedPdfUrlRevokeRef, \* the object URL its revoke releases, 0 for null
    conversions,              \* conversions in flight
    objectUrls,               \* revocation count of each object URL created
    staleCommitted,           \* history: a superseded conversion changed state
    staleArrived,             \* history: a superseded conversion settled
    registry,                 \* the keys the renderer registry has a factory for
    retried,                  \* history: the step just taken was a retry
    error,                    \* state error of DocumentViewer, "" for null
    boundaryError,            \* state.error of the mounted ErrorBoundary, with
                              \* the source and key whose renderer threw it
    docx                      \* the DocxRenderer: its props, html, error and
                              \* the loads in flight

viewerVars == << viewerMounted, src, mimeType, enableOCR, onRequestPdfConversion,
                 workerUrlOption, onConversionError, url, convertedPdfUrl,
                 conversionError, convertedPdfUrlRevokeRef, conversions,
                 objectUrls, staleCommitted, staleArrived, registry,
                 retried, error, boundaryError, docx >>

NoApi == [given |-> FALSE, searchMatches |-> <<>>, searchIndex |-> 0]
NotPublished ==
    [some |-> FALSE, query |-> <<>>, current |-> <<>>, numPages |-> 0,
     scanned |-> 0, doc |-> NoDoc, live |-> FALSE]

\* the state as one record, so that handlers and effects compose
PdfState ==
    [mounted |-> mounted, pdfSrc |-> pdfSrc, docLoaded |-> docLoaded,
     pdfDocRef |-> pdfDocRef, numPages |-> numPages, currentPage |-> currentPage,
     pageInputValue |-> pageInputValue, searchQuery |-> searchQuery,
     searchMatches |-> searchMatches, searchIndex |-> searchIndex,
     scrollingToPage |-> scrollingToPage, timerPending |-> timerPending, ticking |-> ticking,
     staleFramePending |-> staleFramePending, onViewerReady |-> onViewerReady,
     viewerReadyCalledRef |-> viewerReadyCalledRef, hostApi |-> hostApi,
     runs |-> runs, readyCalls |-> readyCalls, published |-> published,
     zoom |-> zoom, zoomMode |-> zoomMode, containerWidth |-> containerWidth,
     elementWidth |-> elementWidth, resizePending |-> resizePending,
     lastClick |-> lastClick]

\* useState initialisers and useRef initial values of PdfRenderer
PdfInitial ==
    [mounted |-> FALSE, pdfSrc |-> NoDoc, docLoaded |-> FALSE,
     pdfDocRef |-> NoDoc, numPages |-> 0, currentPage |-> 1,
     pageInputValue |-> [nan |-> FALSE, n |-> 1], searchQuery |-> <<>>,
     searchMatches |-> <<>>, searchIndex |-> 0,
     scrollingToPage |-> FALSE, timerPending |-> FALSE, ticking |-> FALSE,
     staleFramePending |-> FALSE, onViewerReady |-> "none",
     viewerReadyCalledRef |-> FALSE, hostApi |-> NoApi,
     runs |-> {}, readyCalls |-> 0, published |-> NotPublished,
     zoom |-> 100, zoomMode |-> "pageFit", containerWidth |-> 0,
     elementWidth |-> 0, resizePending |-> FALSE,
     lastClick |-> [clicked |-> FALSE, location |-> "", scheme |-> "",
                    text |-> "", valid |-> TRUE, prevented |-> FALSE,
                    opened |-> FALSE]]

\* the caps of the model's counters
WithinBounds(s) ==
    /\ Cardinality(s.runs) <= MaxRuns

PdfBecomes(s) ==
    /\ WithinBounds(s)
    /\ mounted' = s.mounted
    /\ pdfSrc' = s.pdfSrc
    /\ docLoaded' = s.docLoaded
    /\ pdfDocRef' = s.pdfDocRef
    /\ numPages' = s.numPages
    /\ currentPage' = s.currentPage
    /\ pageInputValue' = s.pageInputValue
    /\ searchQuery' = s.searchQuery
    /\ searchMatches' = s.searchMatches
    /\ searchIndex' = s.searchIndex
    /\ scrollingToPage' = s.scrollingToPage
    /\ timerPending' = s.timerPending
    /\ ticking' = s.ticking
    /\ staleFramePending' = s.staleFramePending
    /\ onViewerReady' = s.onViewerReady
    /\ viewerReadyCalledRef' = s.viewerReadyCalledRef
    /\ hostApi' = s.hostApi
    /\ runs' = s.runs
    /\ readyCalls' = s.readyCalls
    /\ published' = s.published
    /\ zoom' = s.zoom
    /\ zoomMode' = s.zoomMode
    /\ containerWidth' = s.containerWidth
    /\ elementWidth' = s.elementWidth
    /\ resizePending' = s.resizePending
    /\ lastClick' = s.lastClick
    /\ UNCHANGED viewerVars

\* pageRefs.current: the wrappers of the pages <Document> renders once loaded
pageRefs(s) == IF s.mounted /\ s.docLoaded THEN 1..s.numPages ELSE {}


(***************************************************************************)
(* Handlers of PdfRenderer, as functions of the state.                     *)
(***************************************************************************)
scrollToPage(s, page) ==
    IF page \notin pageRefs(s) THEN s
    ELSE [s EXCEPT !.scrollingToPage = TRUE,
                   !.currentPage = page,
                   !.timerPending = TRUE]

\* nextMatch as built in a render whose searchMatches / searchIndex were cMatches / cIndex
nextMatch(s, cMatches, cIndex) ==
    IF Len(cMatches) = 0 THEN s
    ELSE LET next == (cIndex + 1) % Len(cMatches)
         IN  scrollToPage([s EXCEPT !.searchIndex = next], cMatches[next + 1])

prevMatch(s, cMatches, cIndex) ==
    IF Len(cMatches) = 0 THEN s
    ELSE LET prev == (cIndex - 1 + Len(cMatches)) % Len(cMatches)
         IN  scrollToPage([s EXCEPT !.searchIndex = prev], cMatches[prev + 1])

handlePageInputSubmit(s) ==
    LET v == s.pageInputValue
    IN  IF ~v.nan /\ v.n >= 1 /\ s.numPages # 0 /\ v.n <= s.numPages
        THEN scrollToPage(s, v.n)
        ELSE [s EXCEPT !.pageInputValue = [nan |-> FALSE, n |-> s.currentPage]]

Max(a, b) == IF a >= b THEN a ELSE b
Min(a, b) == IF a <= b THEN a ELSE b

onPrevPage(s) == scrollToPage(s, Max(1, s.currentPage - 1))

onNextPage(s) ==
    scrollToPage(s, Min(IF s.numPages = 0 THEN 1 ELSE s.numPages, s.currentPage + 1))

handleDocumentLoadSuccess(s, pdf) ==
    [s EXCEPT !.pdfDocRef = pdf, !.numPages = DocNumPages(pdf)]

\* Zoom.  A zoom is held in hundredths (1.25 is 125); effectiveZoom, which
\* divides by A4_WIDTH_PX = 794, is given in units of 1/79400, so that it
\* stays an integer: a zoom z is z * 794 of them.
effectiveZoom(s) ==
    IF s.zoomMode = "pageFit" /\ s.containerWidth > 0
    THEN Min((s.containerWidth - 48) * 100, 2 * 79400)
    ELSE s.zoom * 794

\* faulty variant: the mode is left as it is
handleZoomChangeKeepingMode(s, value) ==
    IF value.fit THEN s ELSE [s EXCEPT !.zoom = value.n]

\* value: the option chosen in the toolbar's menu, "pageFit" (fit) or the
\* text of a number (n, what parseFloat gives, in hundredths)
handleZoomChange(s, value) ==
    IF value.fit THEN [s EXCEPT !.zoomMode = "pageFit"]
    ELSE [s EXCEPT !.zoomMode = "custom", !.zoom = value.n]

handleZoomIn(s) ==
    LET above == {p \in {50, 75, 100, 125, 150, 200, 300} : p > s.zoom + 1}
        next == CHOOSE p \in above : \A q \in above : p <= q
    IN  [s EXCEPT !.zoomMode = "custom",
                  !.zoom = IF above # {} THEN next ELSE Min(s.zoom + 25, 500)]

handleZoomOut(s) ==
    LET below == {p \in {50, 75, 100, 125, 150, 200, 300} : p < s.zoom - 1}
        next == CHOOSE p \in below : \A q \in below : p >= q
    IN  [s EXCEPT !.zoomMode = "custom",
                  !.zoom = IF below # {} THEN next ELSE Max(s.zoom - 25, 25)]

\* Links.  An href is its scheme ("" when it has none: a fragment, a path)
\* and its text; valid tells whether new URL(href, base) accepts it.
\* new URL(href, window.location.href).protocol is the scheme of the href
\* when it has one and the scheme of the page otherwise.
isExternalLinkHref(location, href) ==
    IF href.text = "" THEN FALSE
    ELSE IF ~href.valid THEN FALSE
    ELSE (IF href.scheme # "" THEN href.scheme ELSE location)
             \in {"http", "https", "mailto"}

\* the click listener of the root element, for a click inside an anchor
onClick(s, location, href) ==
    LET external == isExternalLinkHref(location, href)
    IN  [s EXCEPT !.lastClick =
            [clicked |-> TRUE, location |-> location, scheme |-> href.scheme,
             text |-> href.text, valid |-> href.valid,
             prevented |-> external, opened |-> external]]

\* the scroll listener
onScroll(s) ==
    IF s.scrollingToPage \/ s.ticking THEN s ELSE [s EXCEPT !.ticking = TRUE]

\* faulty variant: the first page that intersects the viewport is kept
firstVisiblePage(s, ratios) ==
    IF \E p \in pageRefs(s) : ratios[p] > 0
    THEN CHOOSE p \in pageRefs(s) :
             ratios[p] > 0 /\ \A q \in pageRefs(s) : ratios[q] > 0 => p <= q
    ELSE 0

\* the forEach of a frame callback over pageRefs.current (the pages in the
\* order they were rendered), ratios[p] being the visible part of the height
\* of page p in halves: the page it ends with, 0 when closestRatio stays 0
visiblePage(s, ratios) ==
    LET RECURSIVE forEach(_, _, _)
        forEach(page, closest, closestRatio) ==
            IF page \notin pageRefs(s)
            THEN IF closestRatio > 0 THEN closest ELSE 0
            ELSE IF ratios[page] > closestRatio
                 THEN forEach(page + 1, page, ratios[page])
                 ELSE forEach(page + 1, closest, closestRatio)
    IN  forEach(1, 1, 0)

\* the evaluation a frame callback makes; closest = 0: no rendered page has a
\* positive visible ratio
detectPage(s, closest) ==
    IF closest = 0 THEN s ELSE [s EXCEPT !.currentPage = closest]

(***************************************************************************)
(* The search: one run per execution of the search effect.                 *)
(***************************************************************************)
pageMatches(doc, pageNum, query) ==
    LET items == DocPages(doc)[pageNum]
        joined == toLowerCase(join(items, <<>>))
        joinedWithSpaces == toLowerCase(join(items, <<" ">>))
    IN  includes(joined, query) \/ includes(joinedWithSpaces, query)

\* faulty variant: the cleanup leaves the flag alone
searchEffectCleanupWithoutFlag(rs) == rs

\* the cleanup the effect returns
searchEffectCleanup(rs) == {[r EXCEPT !.cancelled = TRUE] : r \in rs}

\* faulty variant: the flag is not consulted before the commit
runCancelledIgnored(r) == FALSE

\* the test of the per-run flag before the commit
runCancelled(r) == r.cancelled

\* faulty variant: the page is put in front of the list
pushMatchInFront(matches, pageNum) == <<pageNum>> \o matches

\* matches.push(pageNum)
pushMatch(matches, pageNum) == Append(matches, pageNum)

searchEffect(s) ==
    LET query == toLowerCase(trim(s.searchQuery))
        cleaned == [s EXCEPT !.runs = searchEffectCleanup(s.runs)]
    IN  IF query = <<>> \/ s.pdfDocRef = NoDoc \/ s.numPages = 0
        THEN [cleaned EXCEPT !.searchMatches = <<>>,
                             !.searchIndex = 0,
                             !.published = NotPublished]
        ELSE [cleaned EXCEPT !.runs = @ \cup
                 {[query |-> query, numPages |-> s.numPages, pageNum |-> 1,
                   matches |-> <<>>, cancelled |-> FALSE]}]

\* the end of the loop: publish unless the run was cancelled
searchCommit(s, r, matches) ==
    IF runCancelled(r) THEN s
    ELSE LET t == [s EXCEPT !.searchMatches = matches,
                            !.searchIndex = 0,
                            !.published =
                                [some |-> TRUE, query |-> r.query,
                                 current |-> toLowerCase(trim(s.searchQuery)),
                                 numPages |-> r.numPages, scanned |-> r.pageNum,
                                 doc |-> s.pdfDocRef, live |-> s.docLoaded]]
         IN  IF Len(matches) > 0 THEN scrollToPage(t, matches[1]) ELSE t

\* one iteration of the loop of run r: the page's text arrives (ok) or the
\* request is rejected
searchStep(s, r, ok) ==
    LET rest == s.runs \ {r}
    IN  IF ~ok \/ r.pageNum > DocNumPages(s.pdfDocRef)
        THEN [s EXCEPT !.runs = rest]
        ELSE LET matches == IF pageMatches(s.pdfDocRef, r.pageNum, r.query)
                            THEN pushMatch(r.matches, r.pageNum)
                            ELSE r.matches
             IN  IF r.pageNum + 1 <= r.numPages
                 THEN [s EXCEPT !.runs = rest \cup
                          {[r EXCEPT !.pageNum = @ + 1, !.matches = matches]}]
                 ELSE searchCommit([s EXCEPT !.runs = rest], r, matches)

(***************************************************************************)
(* The text-layer transform.  The markup it returns is written as the      *)
(* sequence of its tokens: a character of text (the entity escapeHtml made *)
(* of it), the opening tag of a span with what it carries, a closing tag.  *)
(***************************************************************************)
escapeHtml(text) ==
    [i \in 1..Len(text) |->
        [kind |-> "text",
         c |-> CASE text[i] = "&" -> "&amp;"
                 [] text[i] = "<" -> "&lt;"
                 [] text[i] = ">" -> "&gt;"
                 [] text[i] = "\"" -> "&quot;"
                 [] text[i] = "'" -> "&#039;"
                 [] OTHER -> text[i]]]

\* the function customTextRenderer memoises, applied to the fragment str of
\* page pageNumber; shouldHighlightAll: a page highlight is enabled and
\* highlightPageSet has the page
customTextRenderer(s, str, pageNumber, shouldHighlightAll) ==
    LET query == trim(s.searchQuery)
        queryLower == toLowerCase(query)
        lower == toLowerCase(str)
        activeMatchPage == IF Len(s.searchMatches) > 0 /\ s.searchIndex < Len(s.searchMatches)
                           THEN s.searchMatches[s.searchIndex + 1] ELSE 0
        isActivePage == activeMatchPage = pageNumber
        slice(from, to) == SubSeq(str, from + 1, Min(to, Len(str)))
        indexOf(idx) ==
            LET at == {i \in idx..(Len(lower) - Len(queryLower)) :
                          SubSeq(lower, i + 1, i + Len(queryLower)) = queryLower}
            IN  IF at = {} THEN -1 ELSE CHOOSE i \in at : \A j \in at : i <= j
        RECURSIVE while(_)
        while(idx) ==
            LET found == indexOf(idx)
            IN  IF found = -1 THEN escapeHtml(slice(idx, Len(str)))
                ELSE escapeHtml(slice(idx, found))
                     \o << [kind |-> "span",
                            c |-> IF isActivePage THEN "search active" ELSE "search"] >>
                     \o escapeHtml(slice(found, found + Len(query)))
                     \o << [kind |-> "/span", c |-> ""] >>
                     \o while(found + Len(query))
        result == IF query # <<>> THEN while(0) ELSE escapeHtml(str)
    IN  IF str = <<>> THEN <<>>
        ELSE IF shouldHighlightAll
        THEN << [kind |-> "span", c |-> "page"] >> \o result
             \o << [kind |-> "/span", c |-> ""] >>
        ELSE result

(***************************************************************************)
(* Effects, in the order React runs them after a render of state s that    *)
(* follows state old.                                                      *)
(***************************************************************************)
\* faulty variant: viewerReadyCalledRef is not consulted
viewerReadyGuardWithoutRef(s) == s.onViewerReady # "none"

viewerReadyGuard(s) == s.onViewerReady # "none" /\ ~s.viewerReadyCalledRef

viewerReadyEffect(old, s) ==
    IF /\ \/ ~old.mounted
          \/ old.onViewerReady # s.onViewerReady
          \/ old.searchMatches # s.searchMatches
          \/ old.searchIndex # s.searchIndex
       /\ viewerReadyGuard(s)
    THEN [s EXCEPT !.viewerReadyCalledRef = TRUE,
                   !.hostApi = [given |-> TRUE,
                                searchMatches |-> s.searchMatches,
                                searchIndex |-> s.searchIndex],
                   !.readyCalls = Min(@ + 1, MaxReadyCalls)]
    ELSE s

pageInputSyncEffect(old, s) ==
    IF ~old.mounted \/ old.currentPage # s.currentPage
    THEN [s EXCEPT !.pageInputValue = [nan |-> FALSE, n |-> s.currentPage]]
    ELSE s

scrollEffect(old, s) ==
    IF ~old.mounted \/ old.numPages # s.numPages
    THEN LET removed == [s EXCEPT !.staleFramePending = @ \/ old.ticking,
                                  !.ticking = FALSE]
         IN  IF s.numPages = 0 THEN removed ELSE onScroll(removed)
    ELSE s

searchEffectOnDeps(old, s) ==
    IF ~old.mounted \/ old.searchQuery # s.searchQuery \/ old.numPages # s.numPages
    THEN searchEffect(s)
    ELSE s

Render(old, s) ==
    LET \* the effect on [zoomMode]: the previous observer is disconnected; in
        \* page-fit mode a new one observes the element, which it reports
        \* once if the element is laid out
        s0 == IF ~old.mounted \/ old.zoomMode # s.zoomMode
              THEN [s EXCEPT !.resizePending =
                                 s.zoomMode = "pageFit" /\ s.elementWidth > 0]
              ELSE s
        s1 == viewerReadyEffect(old, s0)
        s2 == pageInputSyncEffect(old, s1)
        s3 == scrollEffect(old, s2)
        s4 == searchEffectOnDeps(old, s3)
    IN  viewerReadyEffect(s3, s4)


(***************************************************************************)
(* Actions of the PDF interaction controller.                              *)
(***************************************************************************)
\* DocumentViewer mounts the lazily loaded PdfRenderer (first display, or the
\* renderer key came back to "pdf")
Mount(d, cb) ==
    /\ ~mounted
    /\ PdfBecomes(Render(PdfInitial,
           [PdfInitial EXCEPT !.mounted = TRUE, !.pdfSrc = d, !.onViewerReady = cb]))

\* the renderer key changed, or the viewer went away: the instance and its
\* state are dropped, and its search effect's cleanup has run
Unmount ==
    /\ mounted
    /\ PdfBecomes(PdfInitial)

\* DocumentViewer re-renders the same LazyRenderer with another src
SrcChange(d) ==
    /\ mounted
    /\ d # pdfSrc
    /\ PdfBecomes(Render(PdfState, [PdfState EXCEPT !.pdfSrc = d, !.docLoaded = FALSE]))

\* <Document onLoadSuccess>
LoadSuccess ==
    /\ mounted
    /\ ~docLoaded
    /\ PdfBecomes(Render(PdfState,
           handleDocumentLoadSuccess([PdfState EXCEPT !.docLoaded = TRUE], pdfSrc)))

\* the host re-renders with another options.onViewerReady
SetOnViewerReady(cb) ==
    /\ mounted
    /\ cb # onViewerReady
    /\ PdfBecomes(Render(PdfState, [PdfState EXCEPT !.onViewerReady = cb]))

\* setSearchQuery, from the toolbar's input or through the host's API object
SetSearchQuery(q) ==
    /\ mounted
    /\ q # searchQuery
    /\ PdfBecomes(Render(PdfState, [PdfState EXCEPT !.searchQuery = q]))

\* the toolbar's next / previous: the handlers of the latest render
ToolbarNextMatch ==
    /\ mounted
    /\ Len(searchMatches) > 0
    /\ PdfBecomes(Render(PdfState, nextMatch(PdfState, searchMatches, searchIndex)))

ToolbarPrevMatch ==
    /\ mounted
    /\ Len(searchMatches) > 0
    /\ PdfBecomes(Render(PdfState, prevMatch(PdfState, searchMatches, searchIndex)))

\* nextMatch / prevMatch of the object the host received through onViewerReady
ApiNextMatch ==
    /\ mounted
    /\ hostApi.given
    /\ PdfBecomes(Render(PdfState,
           nextMatch(PdfState, hostApi.searchMatches, hostApi.searchIndex)))

ApiPrevMatch ==
    /\ mounted
    /\ hostApi.given
    /\ PdfBecomes(Render(PdfState,
           prevMatch(PdfState, hostApi.searchMatches, hostApi.searchIndex)))

\* scrollToPage(n): host API, outline item or thumbnail
ScrollToPage(n) ==
    /\ mounted
    /\ PdfBecomes(Render(PdfState, scrollToPage(PdfState, n)))

PrevPage ==
    /\ mounted
    /\ PdfBecomes(Render(PdfState, onPrevPage(PdfState)))

NextPage ==
    /\ mounted
    /\ PdfBecomes(Render(PdfState, onNextPage(PdfState)))

PageInputChange(v) ==
    /\ mounted
    /\ v # pageInputValue
    /\ PdfBecomes(Render(PdfState, [PdfState EXCEPT !.pageInputValue = v]))

PageInputSubmit ==
    /\ mounted
    /\ PdfBecomes(Render(PdfState, handlePageInputSubmit(PdfState)))

ZoomChange(value) ==
    /\ mounted
    /\ PdfBecomes(Render(PdfState, handleZoomChange(PdfState, value)))

ZoomIn ==
    /\ mounted
    /\ PdfBecomes(Render(PdfState, handleZoomIn(PdfState)))

ZoomOut ==
    /\ mounted
    /\ PdfBecomes(Render(PdfState, handleZoomOut(PdfState)))

\* the viewer element gets another width (window, sidebar, layout): a
\* connected ResizeObserver, which exists in page-fit mode, takes note
Resize(width) ==
    /\ mounted
    /\ width # elementWidth
    /\ PdfBecomes([PdfState EXCEPT !.elementWidth = width,
                                   !.resizePending = @ \/ zoomMode = "pageFit"])

\* the ResizeObserver callback: setContainerWidth(entries[0].contentRect.width)
ObserverReport ==
    /\ mounted
    /\ resizePending
    /\ PdfBecomes(Render(PdfState, [PdfState EXCEPT !.containerWidth = elementWidth,
                                                    !.resizePending = FALSE]))

\* a click on an anchor of the text or annotation layer, the outline or a
\* thumbnail, on a page whose address has the scheme location
Click(location, href) ==
    /\ mounted
    /\ PdfBecomes(Render(PdfState, onClick(PdfState, location, href)))

\* a scroll event of the viewer element
Scroll ==
    /\ mounted
    /\ numPages # 0
    /\ PdfBecomes(Render(PdfState, onScroll(PdfState)))

\* the frame callback of the installed listener
AnimationFrame(ratios) ==
    /\ mounted
    /\ ticking
    /\ PdfBecomes(Render(PdfState, detectPage([PdfState EXCEPT !.ticking = FALSE],
                                              visiblePage(PdfState, ratios))))

\* a frame callback scheduled by a listener that has been removed since; more
\* of them may remain
StaleAnimationFrame(ratios, more) ==
    /\ mounted
    /\ staleFramePending
    /\ PdfBecomes(Render(PdfState,
           detectPage([PdfState EXCEPT !.staleFramePending = more],
                      visiblePage(PdfState, ratios))))

\* a 500 ms timer of scrollToPage expires; more of them may remain
TimerFire(more) ==
    /\ mounted
    /\ timerPending
    /\ PdfBecomes([PdfState EXCEPT !.timerPending = more, !.scrollingToPage = FALSE])

\* a page's text arrives for run r, or its request fails.  While <Document>
\* loads another source the document behind pdfDocRef.current has been
\* destroyed by it: whether its pages still answer is left open (ok)
SearchStep(r, ok) ==
    /\ mounted
    /\ r \in runs
    /\ PdfBecomes(Render(PdfState, searchStep(PdfState, r, ok)))

PdfIs(s) ==
    /\ mounted = s.mounted
    /\ pdfSrc = s.pdfSrc
    /\ docLoaded = s.docLoaded
    /\ pdfDocRef = s.pdfDocRef
    /\ numPages = s.numPages
    /\ currentPage = s.currentPage
    /\ pageInputValue = s.pageInputValue
    /\ searchQuery = s.searchQuery
    /\ searchMatches = s.searchMatches
    /\ searchIndex = s.searchIndex
    /\ scrollingToPage = s.scrollingToPage
    /\ timerPending = s.timerPending
    /\ ticking = s.ticking
    /\ staleFramePending = s.staleFramePending
    /\ onViewerReady = s.onViewerReady
    /\ viewerReadyCalledRef = s.viewerReadyCalledRef
    /\ hostApi = s.hostApi
    /\ runs = s.runs
    /\ readyCalls = s.readyCalls
    /\ published = s.published
    /\ zoom = s.zoom
    /\ zoomMode = s.zoomMode
    /\ containerWidth = s.containerWidth
    /\ elementWidth = s.elementWidth
    /\ resizePending = s.resizePending
    /\ lastClick = s.lastClick

(***************************************************************************)
(* FormatRouter: the renderer key of a source.  A URL is its pathname as   *)
(* split(".") leaves it, a Blob is its type; Undefined stands for          *)
(* undefined / null.                                                       *)
(***************************************************************************)
Undefined == "undefined"

MimePdf == "application/pdf"
MimeDocx == "application/vnd.openxmlformats-officedocument.wordprocessingml.document"
MimePptx == "application/vnd.openxmlformats-officedocument.presentationml.presentation"
MimePpt == "application/vnd.ms-powerpoint"
MimeDoc == "application/msword"

\* The tables are object literals read with table[key]: a key that names a
\* property every object inherits ("constructor") reads that property, here
\* the function Object, which is truthy and is no renderer key and no string.
MIME_TO_RENDERER(m) ==
    CASE m = MimePdf -> "pdf"
      [] m = MimeDocx -> "docx"
      [] m = MimePptx -> "office-pdf"
      [] m = MimePpt -> "office-pdf"
      [] m = MimeDoc -> "office-pdf"
      [] m = "constructor" -> "[Function: Object]"
      [] OTHER -> Undefined

EXT_TO_RENDERER(ext) ==
    CASE ext = <<"p", "d", "f">> -> "pdf"
      [] ext = <<"d", "o", "c", "x">> -> "docx"
      [] ext = <<"d", "o", "c">> -> "office-pdf"
      [] ext = <<"p", "p", "t", "x">> -> "office-pdf"
      [] ext = <<"p", "p", "t">> -> "office-pdf"
      [] ext = <<"c", "o", "n", "s", "t", "r", "u", "c", "t", "o", "r">>
            -> "[Function: Object]"
      [] OTHER -> Undefined

EXT_TO_MIME(ext) ==
    CASE ext = <<"p", "d", "f">> -> MimePdf
      [] ext = <<"d", "o", "c", "x">> -> MimeDocx
      [] ext = <<"d", "o", "c">> -> MimeDoc
      [] ext = <<"p", "p", "t", "x">> -> MimePptx
      [] ext = <<"p", "p", "t">> -> MimePpt
      [] ext = <<"c", "o", "n", "s", "t", "r", "u", "c", "t", "o", "r">>
            -> "[Function: Object]"
      [] OTHER -> Undefined

\* pathname.split(".").pop()?.toLowerCase()
extensionOf(source) == toLowerCase(source.pathname[Len(source.pathname)])

isBlobOrFile(source) == source.blob

inferMimeType(source) ==
    IF source.string
    THEN LET ext == extensionOf(source)
         IN  IF ext # <<>> /\ EXT_TO_MIME(ext) # Undefined
             THEN EXT_TO_MIME(ext) ELSE Undefined
    ELSE IF source.blob /\ source.type # "" THEN source.type ELSE Undefined

\* faulty variant: the OCR flag is ignored
ocrKeyIgnoringFlag(key, ocr) == key
ocrKey(key, ocr) == IF key = "pdf" /\ ocr THEN "pdf-ocr" ELSE key

getRendererKey(source, mime, ocr) ==
    LET resolvedMime == IF mime # Undefined THEN mime ELSE inferMimeType(source)
    IN  IF resolvedMime \notin {Undefined, ""} /\ MIME_TO_RENDERER(resolvedMime) # Undefined
        THEN [rendererKey |-> ocrKey(MIME_TO_RENDERER(resolvedMime), ocr),
              mimeType |-> resolvedMime]
        ELSE IF source.string /\ extensionOf(source) # <<>>
                /\ EXT_TO_RENDERER(extensionOf(source)) # Undefined
        THEN [rendererKey |-> ocrKey(EXT_TO_RENDERER(extensionOf(source)), ocr),
              mimeType |-> IF EXT_TO_MIME(extensionOf(source)) # Undefined
                           THEN EXT_TO_MIME(extensionOf(source)) ELSE resolvedMime]
        ELSE IF source.blob /\ source.type # "" /\ MIME_TO_RENDERER(source.type) # Undefined
        THEN [rendererKey |-> ocrKey(MIME_TO_RENDERER(source.type), ocr),
              mimeType |-> source.type]
        ELSE [rendererKey |-> "unsupported", mimeType |-> resolvedMime]

(***************************************************************************)
(* RendererRegistry: the registry object as what registry[key] reads for   *)
(* each renderer key, Undefined for a key that was never assigned.         *)
(***************************************************************************)
RendererKeys == {"pdf", "pdf-ocr", "docx", "office-pdf", "unsupported"}
RendererFactories == {"PdfRenderer", "PdfOcrRenderer", "DocxRenderer",
                      "OfficePdfFallback", "stubFactory"}
\* const registry = {}
NoRegistrations == [k \in RendererKeys |-> Undefined]

\* faulty variant: a registration drops the registrations of the other keys
registerRendererAlone(registered, key, factory) ==
    [NoRegistrations EXCEPT ![key] = factory]
registerRenderer(registered, key, factory) ==
    [registered EXCEPT ![key] = factory]

\* faulty variant: every key finds a loader
getRendererFactoryFound(registered, key) == "PdfRenderer"
getRendererFactory(registered, key) ==
    IF key \in DOMAIN registered THEN registered[key] ELSE Undefined

hasRenderer(registered, key) ==
    /\ key \in DOMAIN registered /\ registered[key] # Undefined
    /\ registered[key] \in RendererFactories

\* the registrations made when the package's renderers module is imported
DefaultRegistry ==
    registerRenderer(
        registerRenderer(
            registerRenderer(
                registerRenderer(NoRegistrations, "pdf", "PdfRenderer"),
                "pdf-ocr", "PdfOcrRenderer"),
            "docx", "DocxRenderer"),
        "office-pdf", "OfficePdfFallback")

(***************************************************************************)
(* DocumentViewer.  Object URLs are numbered in creation order;            *)
(* objectUrls[k] counts the revokeObjectURL calls on the k-th.             *)
(***************************************************************************)
MaxUrls == 3           \* object URLs created in one behaviour
MaxConversions == 2
MaxLoads == 2    \* conversions in flight at once

UrlPdf == [string |-> TRUE, blob |-> FALSE, name |-> "a.pdf", type |-> "",
           pathname |-> << <<"/", "a">>, <<"P", "d", "f">> >>]
Deck1 == [string |-> FALSE, blob |-> TRUE, name |-> "one.pptx", type |-> MimePptx, pathname |-> <<>>]
Docx1 == [string |-> FALSE, blob |-> TRUE, name |-> "report.docx", type |-> MimeDocx, pathname |-> <<>>]
UrlXyz == [string |-> TRUE, blob |-> FALSE, name |-> "file.xyz", type |-> "",
           pathname |-> << <<"/", "f", "i", "l", "e">>, <<"x", "y", "z">> >>]
\* a value that is neither a string nor a Blob
NotASource == [string |-> FALSE, blob |-> FALSE, name |-> "", type |-> "",
               pathname |-> <<>>]
ViewerSources == {UrlPdf, Deck1, [Deck1 EXCEPT !.name = "two.pptx"]}
WorkerUrls == {[given |-> FALSE, text |-> <<>>], [given |-> TRUE, text |-> <<" ">>],
               [given |-> TRUE, text |-> <<" ", "w", "1">>]}

Null == [object |-> FALSE, id |-> 0, href |-> "null"]
HostedPdf == [object |-> FALSE, id |-> 0, href |-> "https://cdn/converted.pdf"]

ViewerState ==
    [mounted |-> viewerMounted, src |-> src, mimeType |-> mimeType,
     enableOCR |-> enableOCR, onRequestPdfConversion |-> onRequestPdfConversion,
     workerUrlOption |-> workerUrlOption, onConversionError |-> onConversionError,
     url |-> url, convertedPdfUrl |-> convertedPdfUrl,
     conversionError |-> conversionError,
     convertedPdfUrlRevokeRef |-> convertedPdfUrlRevokeRef,
     conversions |-> conversions, objectUrls |-> objectUrls,
     staleCommitted |-> staleCommitted, staleArrived |-> staleArrived,
     registry |-> registry, retried |-> FALSE,
     error |-> error, boundaryError |-> boundaryError, docx |-> docx]

\* before the first render: useState / useRef initial values, no props yet
ViewerInitial ==
    [mounted |-> FALSE, src |-> UrlPdf, mimeType |-> Undefined,
     enableOCR |-> FALSE, onRequestPdfConversion |-> Undefined,
     workerUrlOption |-> [given |-> FALSE, text |-> <<>>],
     onConversionError |-> Undefined,
     url |-> Null, convertedPdfUrl |-> Null, conversionError |-> <<>>,
     convertedPdfUrlRevokeRef |-> 0, conversions |-> {}, objectUrls |-> <<>>,
     staleCommitted |-> FALSE, staleArrived |-> FALSE,
     registry |-> DefaultRegistry, retried |-> FALSE,
     error |-> "", boundaryError |-> [some |-> FALSE, src |-> UrlPdf, key |-> ""],
     docx |-> [mounted |-> FALSE, src |-> [href |-> "", blob |-> FALSE],
               html |-> "", error |-> "", loads |-> {}]]

ViewerWithinBounds(s) ==
    /\ Len(s.objectUrls) <= MaxUrls
    /\ Cardinality(s.conversions) <= MaxConversions
    /\ Cardinality(s.docx.loads) <= MaxLoads

\* URL.createObjectURL / URL.revokeObjectURL
createObjectURL(s) == [s EXCEPT !.objectUrls = Append(@, 0)]
revokeObjectURL(s, k) ==
    IF k = 0 THEN s ELSE [s EXCEPT !.objectUrls[k] = @ + 1]

normalizeSrcToUrl(s) ==
    IF s.src.string
    THEN [s EXCEPT !.url = [object |-> FALSE, id |-> 0, href |-> s.src.name]]
    ELSE IF ~s.src.blob
    THEN [s EXCEPT !.url = [object |-> FALSE, id |-> 0, href |-> ""]]
    ELSE LET c == createObjectURL(s)
         IN  [c EXCEPT !.url = [object |-> TRUE, id |-> Len(c.objectUrls),
                                href |-> "blob:"]]

\* the values the render derives from props and state
conversionWorkerUrl(s) ==
    IF s.workerUrlOption.given THEN trim(s.workerUrlOption.text) ELSE <<>>
routed(s) == getRendererKey(s.src, s.mimeType, s.enableOCR)
rendererKey(s) == routed(s).rendererKey
resolvedMime(s) == routed(s).mimeType
shouldConvertOffice(s) ==
    /\ rendererKey(s) = "office-pdf"
    /\ (s.onRequestPdfConversion # Undefined \/ conversionWorkerUrl(s) # <<>>)
    /\ isBlobOrFile(s.src)
effectiveRendererKey(s) == IF s.convertedPdfUrl # Null THEN "pdf" ELSE rendererKey(s)
effectiveSrc(s) == IF s.convertedPdfUrl # Null THEN s.convertedPdfUrl ELSE s.url

\* faulty variant: the conversion error is not looked at
renderedWithoutErrorBranch(s) ==
    IF ~s.mounted THEN [kind |-> "nothing", key |-> "", src |-> Null]
    ELSE IF s.url.href = "" /\ ~s.src.string
    THEN [kind |-> "invalid", key |-> "", src |-> Null]
    ELSE IF shouldConvertOffice(s) /\ s.convertedPdfUrl = Null
    THEN [kind |-> "converting", key |-> "", src |-> Null]
    ELSE IF rendererKey(s) = "unsupported"
    THEN [kind |-> "unsupported", key |-> "", src |-> Null]
    ELSE IF getRendererFactory(s.registry, effectiveRendererKey(s)) = Undefined
    THEN [kind |-> "noRenderer", key |-> "", src |-> Null]
    ELSE [kind |-> "renderer", key |-> effectiveRendererKey(s), src |-> effectiveSrc(s)]

\* what the render returns
rendered(s) ==
    IF ~s.mounted THEN [kind |-> "nothing", key |-> "", src |-> Null]
    ELSE IF s.url.href = "" /\ ~s.src.string
    THEN [kind |-> "invalid", key |-> "", src |-> Null]
    ELSE IF s.conversionError # <<>>
    THEN [kind |-> "conversionError", key |-> "", src |-> Null]
    ELSE IF shouldConvertOffice(s) /\ s.convertedPdfUrl = Null
    THEN [kind |-> "converting", key |-> "", src |-> Null]
    ELSE IF rendererKey(s) = "unsupported"
    THEN [kind |-> "unsupported", key |-> "", src |-> Null]
    ELSE IF getRendererFactory(s.registry, effectiveRendererKey(s)) = Undefined
    THEN [kind |-> "noRenderer", key |-> "", src |-> Null]
    ELSE [kind |-> "renderer", key |-> effectiveRendererKey(s), src |-> effectiveSrc(s)]

\* faulty variant: the ref keeps the revoke it has just called
resetEffectKeepingRef(s) ==
    [revokeObjectURL(s, s.convertedPdfUrlRevokeRef)
        EXCEPT !.conversionError = <<>>, !.convertedPdfUrl = Null]

\* the effect on [src, rendererKey]: drop what belongs to the previous source
resetEffect(s) ==
    [revokeObjectURL(s, s.convertedPdfUrlRevokeRef)
        EXCEPT !.convertedPdfUrlRevokeRef = 0,
               !.conversionError = <<>>,
               !.convertedPdfUrl = Null]

\* faulty variant: the cleanup leaves the flag alone
conversionCleanupWithoutFlag(s) == s

\* the conversion effect's cleanup: cancelled = true in the run it belongs to
conversionCleanup(s) ==
    [s EXCEPT !.conversions = {[c EXCEPT !.cancelled = TRUE] : c \in @}]

\* faulty variant: the worker is preferred when it is configured
runConversionWorkerFirst(s) ==
    IF conversionWorkerUrl(s) # <<>> THEN "worker" ELSE "host"

\* runConversion: which strategy a conversion attempt invokes
runConversion(s) ==
    IF s.onRequestPdfConversion # Undefined THEN "host" ELSE "worker"

\* the conversion effect: start a conversion, by the host's converter when
\* there is one, else by the worker
conversionEffect(s) ==
    IF ~shouldConvertOffice(s) \/ resolvedMime(s) \in {Undefined, ""}
    THEN s
    ELSE LET slot == CHOOSE n \in 1..(Cardinality(s.conversions) + 1) :
                         \A c \in s.conversions : c.n # n
             via == runConversion(s)
         IN  [s EXCEPT !.conversions =
                 {[c EXCEPT !.superseded = TRUE] : c \in @}
                 \cup {[n |-> slot, via |-> via, cancelled |-> FALSE,
                        superseded |-> FALSE]}]

\* history: a conversion in flight is superseded once the source, the
\* resolved mime or the conversion configuration is no longer what it was
\* started for
conversionInputs(s) ==
    << s.src, resolvedMime(s), s.onRequestPdfConversion, conversionWorkerUrl(s) >>
supersede(old, s) ==
    IF conversionInputs(old) # conversionInputs(s)
    THEN [s EXCEPT !.conversions = {[c EXCEPT !.superseded = TRUE] : c \in @}]
    ELSE s

conversionDeps(s) ==
    << shouldConvertOffice(s), s.src, resolvedMime(s), s.onRequestPdfConversion,
       conversionWorkerUrl(s), s.onConversionError >>
resetDeps(s) == << s.src, rendererKey(s) >>

\* a render of the viewer with its effects: old is the committed state the
\* previous render saw, s carries the new props.  Cleanups of the effects
\* whose dependencies changed run first, then the effects, in source order.
ViewerRender(old, s) ==
    LET first == ~old.mounted
        srcChanged == first \/ s.src # old.src
        convChanged == first \/ conversionDeps(s) # conversionDeps(old)
        resetChanged == first \/ resetDeps(s) # resetDeps(old)
        s1 == IF srcChanged THEN normalizeSrcToUrl(s) ELSE s
        s2 == IF ~first /\ srcChanged /\ old.url.object
              THEN revokeObjectURL(s1, old.url.id) ELSE s1
        s3 == IF ~first /\ convChanged THEN conversionCleanup(s2) ELSE s2
        s4 == IF first THEN s3 ELSE supersede(old, s3)
        s5 == IF resetChanged THEN resetEffect(s4) ELSE s4
        s6 == IF convChanged THEN conversionEffect(s5) ELSE s5
    IN  IF resetChanged THEN [s6 EXCEPT !.error = ""] ELSE s6

\* unmount: the cleanups of the three effects
viewerUnmount(s) ==
    LET s1 == IF s.url.object THEN revokeObjectURL(s, s.url.id) ELSE s
        s2 == [revokeObjectURL(s1, s1.convertedPdfUrlRevokeRef)
                  EXCEPT !.convertedPdfUrlRevokeRef = 0]
        s3 == conversionCleanup(s2)
    IN  [s3 EXCEPT !.mounted = FALSE,
                   !.conversions = {[c EXCEPT !.superseded = TRUE] : c \in @}]

\* What the worker answers: Response.ok / status / statusText, the
\* Content-Type header as its tokens (<<>> when the header is missing), the
\* body as text, the size of the body as a Blob, and what the body parses to
\* as JSON ("url": an object with a string url, "nourl": another value,
\* "invalid": res.json() rejects).  "network" is a fetch that rejects.
Response(status, statusText, contentType, text, size, json) ==
    [ok |-> status \in {"200"}, status |-> status, statusText |-> statusText,
     contentType |-> contentType, text |-> text, size |-> size, json |-> json,
     network |-> FALSE]
PdfReply == Response("200", "OK", <<"application/pdf">>, <<"%PDF">>, 1, "invalid")
JsonUrlReply == Response("200", "OK", <<"application/json">>, <<"{url}">>, 1, "url")
BadFileReply ==
    Response("500", "Internal Server Error", <<"text/plain">>, <<"bad file">>, 1, "invalid")
\* besides these: a PDF with a parameter in its content type, an empty PDF,
\* JSON without url, JSON that does not parse, HTML, no content type, a 404
\* with no body, and a fetch that rejects
WorkerResponses ==
    {PdfReply, JsonUrlReply, BadFileReply,
     Response("200", "OK", <<"application/pdf", ";", "charset=binary">>, <<"%PDF">>, 1, "invalid"),
     Response("200", "OK", <<"application/pdf">>, <<>>, 0, "invalid"),
     Response("200", "OK", <<"application/json">>, <<"{}">>, 1, "nourl"),
     Response("200", "OK", <<"application/json">>, <<"oops">>, 1, "invalid"),
     Response("200", "OK", <<"text/html">>, <<"<html>">>, 1, "invalid"),
     Response("200", "OK", <<>>, <<"data">>, 1, "invalid"),
     Response("404", "Not Found", <<>>, <<>>, 0, "invalid"),
     [Response("0", "", <<>>, <<>>, 0, "invalid") EXCEPT !.network = TRUE]}

\* faulty variant: the size of the body is not looked at
emptyBodyAccepted(res) == FALSE

\* blob.size === 0
emptyBody(res) == res.size = 0

\* convertViaWorker: the outcome for response res; message is the thrown
\* Error's message as its parts
Thrown(s, message) ==
    [state |-> s, failed |-> TRUE, revoke |-> 0, pdfUrl |-> Null, message |-> message]
convertViaWorker(s, res) ==
    IF res.network THEN Thrown(s, <<"Failed to fetch">>)
    ELSE IF ~res.ok
    THEN Thrown(s, <<"Conversion failed: ", res.status, " ">>
                   \o (IF res.text # <<>> THEN res.text ELSE <<res.statusText>>)
                   \o <<". Check conversion worker URL and CORS.">>)
    ELSE IF includes(res.contentType, <<"application/pdf">>)
    THEN IF emptyBody(res)
         THEN Thrown(s, <<"Conversion failed: worker returned empty PDF.">>)
         ELSE LET c == createObjectURL(s)
              IN  [state |-> c, failed |-> FALSE, revoke |-> Len(c.objectUrls),
                   pdfUrl |-> [object |-> TRUE, id |-> Len(c.objectUrls),
                               href |-> "blob:"],
                   message |-> <<>>]
    ELSE IF includes(res.contentType, <<"application/json">>)
    THEN IF res.json = "url"
         THEN [state |-> s, failed |-> FALSE, revoke |-> 0, pdfUrl |-> HostedPdf,
               message |-> <<>>]
         ELSE IF res.json = "invalid" THEN Thrown(s, <<"Unexpected token">>)
         ELSE Thrown(s, <<"Conversion response missing url">>)
    ELSE Thrown(s, <<"Unexpected response type: ">> \o res.contentType)

\* how the promise of the host's converter settles
onRequestPdfConversionSettled(s, reply) ==
    IF reply = "error" THEN Thrown(s, <<"Conversion failed">>)
    ELSE [state |-> s, failed |-> FALSE, revoke |-> 0, pdfUrl |-> HostedPdf,
          message |-> <<>>]

conversionSettled(c, res) ==
    \* the continuations of runConversion for conversion c, res being what
    \* its strategy came to
    LET s1 == [res.state EXCEPT !.conversions = @ \ {c},
                                !.staleArrived = @ \/ c.superseded,
                                !.staleCommitted = @ \/ (c.superseded /\ ~c.cancelled)]
    IN  IF res.failed
        THEN IF ~c.cancelled THEN [s1 EXCEPT !.conversionError = res.message]
             ELSE s1
        ELSE IF ~c.cancelled
        THEN [s1 EXCEPT !.convertedPdfUrlRevokeRef =
                            IF res.revoke # 0 THEN res.revoke ELSE @,
                        !.convertedPdfUrl = res.pdfUrl]
        ELSE revokeObjectURL(s1, res.revoke)

\* a commit of the viewer
ViewerBecomes(s) ==
    /\ ViewerWithinBounds(s)
    /\ viewerMounted' = s.mounted
    /\ src' = s.src
    /\ mimeType' = s.mimeType
    /\ enableOCR' = s.enableOCR
    /\ onRequestPdfConversion' = s.onRequestPdfConversion
    /\ workerUrlOption' = s.workerUrlOption
    /\ onConversionError' = s.onConversionError
    /\ url' = s.url
    /\ convertedPdfUrl' = s.convertedPdfUrl
    /\ conversionError' = s.conversionError
    /\ convertedPdfUrlRevokeRef' = s.convertedPdfUrlRevokeRef
    /\ conversions' = s.conversions
    /\ objectUrls' = s.objectUrls
    /\ staleCommitted' = s.staleCommitted
    /\ staleArrived' = s.staleArrived
    /\ registry' = s.registry
    /\ retried' = s.retried
    /\ error' = s.error
    \* an ErrorBoundary exists only while the render reaches the renderer branch
    /\ boundaryError' = IF rendered(s).kind = "renderer" THEN s.boundaryError
                        ELSE ViewerInitial.boundaryError
    /\ docx' = s.docx
    /\ UNCHANGED pdfVars

ViewerIs(s) ==
    /\ viewerMounted = s.mounted
    /\ src = s.src
    /\ mimeType = s.mimeType
    /\ enableOCR = s.enableOCR
    /\ onRequestPdfConversion = s.onRequestPdfConversion
    /\ workerUrlOption = s.workerUrlOption
    /\ onConversionError = s.onConversionError
    /\ url = s.url
    /\ convertedPdfUrl = s.convertedPdfUrl
    /\ conversionError = s.conversionError
    /\ convertedPdfUrlRevokeRef = s.convertedPdfUrlRevokeRef
    /\ conversions = s.conversions
    /\ objectUrls = s.objectUrls
    /\ staleCommitted = s.staleCommitted
    /\ staleArrived = s.staleArrived
    /\ registry = s.registry
    /\ retried = s.retried
    /\ error = s.error
    /\ boundaryError = s.boundaryError
    /\ docx = s.docx

\* the host re-renders the viewer with one prop changed
SetSrc(d) ==
    /\ viewerMounted /\ d # src
    /\ ViewerBecomes(ViewerRender(ViewerState, [ViewerState EXCEPT !.src = d]))

SetMimeType(m) ==
    /\ viewerMounted /\ m # mimeType
    /\ ViewerBecomes(ViewerRender(ViewerState, [ViewerState EXCEPT !.mimeType = m]))

SetEnableOCR(b) ==
    /\ viewerMounted /\ b # enableOCR
    /\ ViewerBecomes(ViewerRender(ViewerState, [ViewerState EXCEPT !.enableOCR = b]))

SetOnRequestPdfConversion(f) ==
    /\ viewerMounted /\ f # onRequestPdfConversion
    /\ ViewerBecomes(ViewerRender(ViewerState,
                        [ViewerState EXCEPT !.onRequestPdfConversion = f]))

SetConversionWorkerUrl(w) ==
    /\ viewerMounted /\ w # workerUrlOption
    /\ ViewerBecomes(ViewerRender(ViewerState,
                        [ViewerState EXCEPT !.workerUrlOption = w]))

SetOnConversionError(f) ==
    /\ viewerMounted /\ f # onConversionError
    /\ ViewerBecomes(ViewerRender(ViewerState,
                        [ViewerState EXCEPT !.onConversionError = f]))

ViewerUnmount ==
    /\ viewerMounted
    /\ ViewerBecomes(viewerUnmount(ViewerState))

remounted(s) ==
    LET gone == viewerUnmount(s)
        fresh == [ViewerInitial EXCEPT !.conversions = gone.conversions,
                                       !.objectUrls = gone.objectUrls,
                                       !.staleCommitted = gone.staleCommitted,
                                       !.staleArrived = gone.staleArrived,
                                       !.registry = gone.registry]
    IN  ViewerRender(fresh,
            [fresh EXCEPT !.mounted = TRUE, !.src = s.src,
                          !.mimeType = s.mimeType, !.enableOCR = s.enableOCR,
                          !.onRequestPdfConversion = s.onRequestPdfConversion,
                          !.workerUrlOption = s.workerUrlOption,
                          !.onConversionError = s.onConversionError])

\* The user presses the Retry button of an error view, which calls the
\* host's onRetry and nothing else.  "noop" is the handler of the README's
\* example; "remount" is the demo's, which changes the key of the element
\* around the viewer, so that the viewer unmounts and a new one mounts with
\* the same props.
Retry(handler) ==
    /\ viewerMounted
    /\ rendered(ViewerState).kind \in {"invalid", "conversionError", "unsupported", "noRenderer"}
    /\ ViewerBecomes([(IF handler = "remount" THEN remounted(ViewerState)
                                              ELSE ViewerState)
                         EXCEPT !.retried = TRUE])

\* a module registers a renderer: at import, before a viewer is mounted
RegisterRenderer(key, factory) ==
    /\ ~viewerMounted
    /\ ViewerBecomes([ViewerState EXCEPT
                         !.registry = registerRenderer(registry, key, factory)])

\* a conversion in flight settles; one whose viewer is gone settles as well
\* the mounted renderer throws while rendering: getDerivedStateFromError keeps
\* the error in the boundary and componentDidCatch hands its message to
\* onError = setError
RendererThrows ==
    /\ viewerMounted
    /\ rendered(ViewerState).kind = "renderer"
    /\ ~boundaryError.some
    /\ ViewerBecomes([ViewerState EXCEPT
           !.error = "render failed",
           !.boundaryError = [some |-> TRUE, src |-> src,
                              key |-> rendererKey(ViewerState)]])

ConversionSettles(c, reply) ==
    /\ c \in conversions
    /\ c.via = "worker"
    /\ ViewerBecomes(conversionSettled(c, convertViaWorker(ViewerState, reply)))

HostConversionSettles(c, reply) ==
    /\ c \in conversions
    /\ c.via = "host"
    /\ ViewerBecomes(conversionSettled(c, onRequestPdfConversionSettled(ViewerState, reply)))

(***************************************************************************)
(* DocxRenderer: one load per execution of its effect on [src,             *)
(* originalSrc].  A source is the string src with whether originalSrc is a *)
(* Blob; the html of a source is written as its href.                      *)
(***************************************************************************)
\* the effect: the cleanup of the previous execution sets its cancelled
\* flag, then load() starts with the first await of its branch
docxEffect(d, source) ==
    [d EXCEPT !.mounted = TRUE, !.src = source,
              !.loads = {[l EXCEPT !.cancelled = TRUE] : l \in @}
                        \cup {[src |-> source, cancelled |-> FALSE,
                               step |-> IF source.blob THEN "arrayBuffer" ELSE "fetch"]}]

\* load(): what follows the await load l is suspended at, which resolved (ok)
\* or threw / rejected / answered with a status that is not ok
load(d, l, ok) ==
    LET rest == [d EXCEPT !.loads = @ \ {l}]
    IN  IF ~ok
        THEN IF l.cancelled THEN rest ELSE [rest EXCEPT !.error = "Failed to load DOCX"]
        ELSE IF l.step = "fetch"
        THEN [rest EXCEPT !.loads = @ \cup {[l EXCEPT !.step = "arrayBuffer"]}]
        ELSE IF l.step = "arrayBuffer"
        THEN IF l.cancelled THEN rest
             ELSE [rest EXCEPT !.loads = @ \cup {[l EXCEPT !.step = "convertToHtml"]}]
        ELSE [rest EXCEPT !.html = l.src.href, !.error = ""]

\* DocumentViewer passes another source to the mounted DocxRenderer
DocxSetSrc(source) ==
    /\ docx.mounted
    /\ source # docx.src
    /\ ViewerBecomes([ViewerState EXCEPT !.docx = docxEffect(@, source)])

\* an await of load l settles
DocxLoadStep(l, ok) ==
    /\ l \in docx.loads
    /\ ViewerBecomes([ViewerState EXCEPT !.docx =
           IF @.mounted THEN load(@, l, ok) ELSE [@ EXCEPT !.loads = @ \ {l}]])

\* the DocxRenderer unmounts: the cleanup runs and its state is gone
DocxUnmount ==
    /\ docx.mounted
    /\ ViewerBecomes([ViewerState EXCEPT !.docx =
           [ViewerInitial.docx EXCEPT
               !.loads = {[l EXCEPT !.cancelled = TRUE] : l \in docx.loads}]])

\* DocumentViewer mounts a DocxRenderer (again)
DocxMount(source) ==
    /\ ~docx.mounted
    /\ ViewerBecomes([ViewerState EXCEPT !.docx = docxEffect(@, source)])

\* a renderer alone, its viewer left out of the picture
InitPdf ==
    /\ \E d \in Docs, cb \in Callbacks :
          PdfIs(Render(PdfInitial,
                       [PdfInitial EXCEPT !.mounted = TRUE, !.pdfSrc = d,
                                          !.onViewerReady = cb]))
    /\ ViewerIs(ViewerInitial)

\* a viewer alone, mounted by the host with some source
InitViewer ==
    /\ \E d \in ViewerSources, w \in WorkerUrls :
          ViewerIs(ViewerRender(ViewerInitial,
                       [ViewerInitial EXCEPT !.mounted = TRUE, !.src = d,
                                             !.workerUrlOption = w]))
    /\ PdfIs(PdfInitial)

(***************************************************************************)
(* Specifications.  Each takes the operations that act on the part of the  *)
(* controller it is about; the others leave that part alone.               *)
(***************************************************************************)
vars == << pdfVars, viewerVars >>

\* search: queries, extraction runs, document replacement, match navigation

NextSearch ==
    \/ \E d \in Docs : Mount(d, "none")
    \/ Unmount
    \/ \E d \in Docs : SrcChange(d)
    \/ LoadSuccess
    \/ \E q \in { <<" ">>, <<"A", "b", " ">>, <<"c">> } : SetSearchQuery(q)
    \/ ToolbarNextMatch
    \/ ToolbarPrevMatch
    \/ \E r \in runs, ok \in BOOLEAN : SearchStep(r, ok)

InitSearch == InitPdf /\ onViewerReady = "none"
SpecSearch == InitSearch /\ [][NextSearch]_vars



\* the control object: onViewerReady, and match navigation through the object
\* the host holds as well as through the toolbar
NextApi ==
    \/ \E d \in {"A", "C"}, cb \in Callbacks : Mount(d, cb)
    \/ Unmount
    \/ \E d \in {"A", "C"} : SrcChange(d)
    \/ LoadSuccess
    \/ \E cb \in Callbacks : SetOnViewerReady(cb)
    \/ \E q \in { <<>>, <<"a", "b">>, <<"c">> } : SetSearchQuery(q)
    \/ ToolbarNextMatch
    \/ ToolbarPrevMatch
    \/ ApiNextMatch
    \/ ApiPrevMatch
    \/ \E r \in runs : SearchStep(r, docLoaded)

InitApi == InitPdf /\ pdfSrc \in {"A", "C"}
SpecApi == InitApi /\ [][NextApi]_vars


\* page navigation: programmatic scrolls, the toolbar's page controls, scroll-
\* driven detection, match navigation and document replacement
NextNav ==
    \/ \E d \in {"A", "C"} : Mount(d, "none")
    \/ Unmount
    \/ \E d \in {"A", "C"} : SrcChange(d)
    \/ LoadSuccess
    \/ \E q \in { <<>>, <<"a", "b">> } : SetSearchQuery(q)
    \/ ToolbarNextMatch
    \/ ToolbarPrevMatch
    \/ \E n \in 0..3 : ScrollToPage(n)   \* host API, outline, thumbnails
    \/ PrevPage
    \/ NextPage
    \/ \E v \in {[nan |-> TRUE, n |-> 0]} \cup {[nan |-> FALSE, n |-> k] : k \in 0..3} :
          PageInputChange(v)   \* what parseInt(pageInputValue, 10) yields
    \/ PageInputSubmit
    \/ Scroll
    \/ \E ratios \in [pageRefs(PdfState) -> 0..2] : AnimationFrame(ratios)
    \/ \E ratios \in [pageRefs(PdfState) -> 0..2], more \in BOOLEAN :
             StaleAnimationFrame(ratios, more)
    \/ \E more \in BOOLEAN : TimerFire(more)
    \/ \E r \in runs : SearchStep(r, docLoaded)

InitNav == InitPdf /\ pdfSrc \in {"A", "C"} /\ onViewerReady = "none"
SpecNav == InitNav /\ [][NextNav]_vars


\* the viewer: prop changes of the host, conversions settling, unmount
NextViewer ==
    \/ \E d \in ViewerSources : SetSrc(d)
    \/ \E m \in {Undefined, MimePpt} : SetMimeType(m)
    \/ \E f \in {Undefined, "convert"} : SetOnRequestPdfConversion(f)
    \/ \E w \in WorkerUrls : SetConversionWorkerUrl(w)
    \/ \E f \in {Undefined, "onError1"} : SetOnConversionError(f)
    \/ ViewerUnmount
    \/ \E c \in conversions : \E reply \in {PdfReply, JsonUrlReply, BadFileReply} : ConversionSettles(c, reply)
    \/ \E c \in conversions : \E reply \in {"url", "error"} : HostConversionSettles(c, reply)

SpecViewer == InitViewer /\ [][NextViewer]_vars


\* the conversion worker: Office files with an endpoint configured or not,
\* and every kind of answer of the endpoint
InitWorker ==
    /\ \E d \in {Docx1, Deck1}, w \in WorkerUrls :
          ViewerIs(ViewerRender(ViewerInitial,
                       [ViewerInitial EXCEPT !.mounted = TRUE, !.src = d,
                                             !.workerUrlOption = w]))
    /\ PdfIs(PdfInitial)

NextWorker ==
    \/ \E d \in {Docx1, Deck1} : SetSrc(d)
    \/ \E w \in WorkerUrls : SetConversionWorkerUrl(w)
    \/ \E f \in {"onError1", "onError2"} : SetOnConversionError(f)
    \/ RendererThrows
    \/ \E c \in conversions : \E reply \in WorkerResponses : ConversionSettles(c, reply)
    \/ ViewerUnmount

SpecWorker == InitWorker /\ [][NextWorker]_vars

\* the format router: URLs and Blobs of every mapped and of unmapped kinds,
\* explicit MIME types mapped, unmapped and absent, and the OCR flag
RouterSources ==
    { UrlPdf, UrlXyz, Docx1, Deck1, NotASource,
      [string |-> TRUE, blob |-> FALSE, name |-> "https://example.com/x",
       type |-> "", pathname |-> << <<"/", "x">> >>],
      [string |-> TRUE, blob |-> FALSE, name |-> "a.constructor", type |-> "",
       pathname |-> << <<"/", "a">>,
                       <<"c", "o", "n", "s", "t", "r", "u", "c", "t", "o", "r">> >>],
      [string |-> FALSE, blob |-> TRUE, name |-> "scan", type |-> MimePdf,
       pathname |-> <<>>],
      [string |-> FALSE, blob |-> TRUE, name |-> "notes", type |-> "text/plain",
       pathname |-> <<>>],
      [string |-> FALSE, blob |-> TRUE, name |-> "raw", type |-> "",
       pathname |-> <<>>] }

InitRouter ==
    /\ \E d \in RouterSources, b \in BOOLEAN,
          m \in {Undefined, MimePdf, MimeDocx, "application/unknown", "constructor"} :
          ViewerIs(ViewerRender(ViewerInitial,
                       [ViewerInitial EXCEPT !.mounted = TRUE, !.src = d,
                                             !.mimeType = m, !.enableOCR = b]))
    /\ PdfIs(PdfInitial)

NextRouter ==
    \/ \E d \in RouterSources : SetSrc(d)
    \/ \E m \in {Undefined, MimePdf, MimeDocx, "application/unknown", "constructor"} : SetMimeType(m)
    \/ \E b \in BOOLEAN : SetEnableOCR(b)

SpecRouter == InitRouter /\ [][NextRouter]_vars

\* the page view: the zoom controls, the container resizing, and clicks on
\* links, for a renderer mounted with some options.zoom
\* the DocxRenderer alone, mounted on a URL or on a Blob
InitDocx ==
    /\ \E source \in {[href |-> "http://a", blob |-> FALSE],
                       [href |-> "blob:1", blob |-> TRUE]} :
          ViewerIs([ViewerInitial EXCEPT !.docx = docxEffect(@, source)])
    /\ PdfIs(PdfInitial)

NextDocx ==
    \/ \E source \in {[href |-> "http://a", blob |-> FALSE],
                       [href |-> "http://b", blob |-> FALSE],
                       [href |-> "blob:1", blob |-> TRUE]} : DocxSetSrc(source)
    \/ \E source \in {[href |-> "http://a", blob |-> FALSE],
                       [href |-> "blob:1", blob |-> TRUE]} : DocxMount(source)
    \/ \E l \in docx.loads, ok \in BOOLEAN : DocxLoadStep(l, ok)
    \/ DocxUnmount

SpecDocx == InitDocx /\ [][NextDocx]_vars

InitView ==
    /\ \E z \in {100, 25, 450}, w \in {0, 842} :
          PdfIs(Render(PdfInitial,
                       [PdfInitial EXCEPT !.mounted = TRUE, !.pdfSrc = "A",
                                          !.zoom = z, !.elementWidth = w]))
    /\ ViewerIs(ViewerInitial)

NextView ==
    \/ \E v \in { [fit |-> TRUE, n |-> 0], [fit |-> FALSE, n |-> 50],
                   [fit |-> FALSE, n |-> 100], [fit |-> FALSE, n |-> 400] } :
          ZoomChange(v)
    \/ ZoomIn
    \/ ZoomOut
    \/ \E w \in {0, 40, 842, 1600, 2000} : Resize(w)
    \/ ObserverReport
    \/ \E location \in {"https", "file"} :
          \E href \in { [scheme |-> "https", text |-> "https://example.com/", valid |-> TRUE],
                        [scheme |-> "http", text |-> "http://example.com/", valid |-> TRUE],
                        [scheme |-> "mailto", text |-> "mailto:a@example.com", valid |-> TRUE],
                        [scheme |-> "javascript", text |-> "javascript:void(0)", valid |-> TRUE],
                        [scheme |-> "http", text |-> "http://", valid |-> FALSE],
                        [scheme |-> "", text |-> "#page=2", valid |-> TRUE],
                        [scheme |-> "", text |-> "chapter2.html", valid |-> TRUE],
                        [scheme |-> "", text |-> "", valid |-> TRUE] } :
             Click(location, href)

SpecView == InitView /\ [][NextView]_vars

\* the renderer registry from the empty object on, under registrations of
\* any key in any order
InitRegistry ==
    /\ ViewerIs([ViewerInitial EXCEPT !.registry = NoRegistrations])
    /\ PdfIs(PdfInitial)

NextRegistry ==
    \E k \in RendererKeys, f \in RendererFactories : RegisterRenderer(k, f)

SpecRegistry == InitRegistry /\ [][NextRegistry]_vars


\* the error views: sources that resolve or not, registries with loaders
\* missing, a conversion endpoint that answers or fails, and the Retry button
InitErrors ==
    /\ \E d \in {UrlXyz, NotASource, Deck1}, w \in WorkerUrls,
          r \in { DefaultRegistry, NoRegistrations,
                  registerRenderer(NoRegistrations, "office-pdf", "OfficePdfFallback"),
                  [DefaultRegistry EXCEPT !["office-pdf"] = Undefined] } :
          ViewerIs(ViewerRender([ViewerInitial EXCEPT !.registry = r],
                       [ViewerInitial EXCEPT !.mounted = TRUE, !.src = d,
                                             !.workerUrlOption = w,
                                             !.registry = r]))
    /\ PdfIs(PdfInitial)

NextErrors ==
    \/ \E d \in {UrlXyz, NotASource, Deck1} : SetSrc(d)
    \/ \E w \in WorkerUrls : SetConversionWorkerUrl(w)
    \/ \E c \in conversions : \E reply \in {PdfReply, JsonUrlReply, BadFileReply} : ConversionSettles(c, reply)
    \/ \E h \in {"noop", "remount"} : Retry(h)
    \/ ViewerUnmount

SpecErrors == InitErrors /\ [][NextErrors]_vars

(***************************************************************************)
(* Properties of the PDF interaction controller.                           *)
(***************************************************************************)
StrictlyAscending(m) == \A i \in 1..(Len(m) - 1) : m[i] < m[i + 1]

\* C2: every match list the renderer commits was computed in full (all pages
\* of the run scanned) by a run started for the query that is current, after
\* trimming and lower-casing, at the time of the commit; a run superseded by
\* a query change publishes nothing.
C2_OnlyNewestQueryPublishes ==
    published.some =>
        /\ published.query = published.current
        /\ published.scanned = published.numPages

\* C2 witness: the matches of "c" are published while the run started for the
\* earlier query "ab" is still in flight, superseded.
C2_Witness ==
    /\ published.some
    /\ published.query = <<"c">>
    /\ \E r \in runs : r.cancelled /\ r.query = <<"a", "b">>

\* C5: nextMatch() and prevMatch() of the object the host received act on
\* the current search state, exactly as the toolbar's next / previous do.
C5_HostApiActsOnCurrentSearchState ==
    (mounted /\ hostApi.given) =>
        /\ nextMatch(PdfState, hostApi.searchMatches, hostApi.searchIndex)
             = nextMatch(PdfState, searchMatches, searchIndex)
        /\ prevMatch(PdfState, hostApi.searchMatches, hostApi.searchIndex)
             = prevMatch(PdfState, searchMatches, searchIndex)

\* C6: within one mount onViewerReady is invoked at most once, and exactly
\* once as soon as a callback is supplied.
C6_ViewerReadyOncePerMount ==
    /\ readyCalls <= 1
    /\ (mounted /\ onViewerReady # "none") => readyCalls = 1
    /\ hostApi.given <=> readyCalls = 1

\* C6 witness: a callback is supplied, the API object has been rebuilt since
\* it was handed over (the search state moved on), and there was one call.
C6_Witness ==
    /\ mounted
    /\ onViewerReady = "cb2"
    /\ readyCalls = 1
    /\ hostApi.searchMatches # searchMatches

\* C7: the search state is reset when the source changes: no match list
\* computed against the previous document (published while that document was
\* the loaded one) remains published once the new document is loaded and no
\* extraction is in flight.
C7_MatchesBelongToCurrentSource ==
    (Len(searchMatches) > 0 /\ published.live /\ docLoaded /\ runs = {})
        => published.doc = pdfSrc

\* C8: with a loaded document, 1 <= currentPage <= pageCount.
C8_CurrentPageWithinDocument ==
    (mounted /\ docLoaded) => (1 <= currentPage /\ currentPage <= numPages)

\* C9: whenever the match list is non-empty, 0 <= activeIndex < length(matches).
C9_ActiveIndexValid ==
    Len(searchMatches) > 0 => (0 <= searchIndex /\ searchIndex < Len(searchMatches))

\* C10: the published match list is strictly ascending by page number and
\* every entry lies in 1..pageCount of the document that was searched.
C10_MatchesAscendingWithinDocument ==
    /\ StrictlyAscending(searchMatches)
    /\ Len(searchMatches) > 0 =>
          /\ published.some
          /\ published.numPages = DocNumPages(published.doc)
          /\ \A i \in 1..Len(searchMatches) :
                searchMatches[i] \in 1..DocNumPages(published.doc)

\* C10 witness: a search has published two matching pages.
C10_Witness == published.some /\ Len(searchMatches) = 2

(***************************************************************************)
(* Properties of the viewer: conversions and object URLs.                  *)
(***************************************************************************)
\* C1: conversion is last-request-wins: no conversion that was superseded (by
\* a change of source, resolved mime or conversion configuration, by a newer
\* conversion, or by unmount) sets the converted URL, sets the conversion
\* error or calls onConversionError.
C1_SupersededConversionNeverCommits == ~staleCommitted

\* a superseded conversion has settled and the conversion in force delivered
C1_Witness ==
    /\ staleArrived
    /\ viewerMounted
    /\ convertedPdfUrl # Null
    /\ conversions = {}

\* C3: every object URL created, for a Blob source or for a worker's PDF
\* reply, has been released once the viewer is unmounted and no conversion is
\* in flight any more.
C3_EveryObjectUrlReleased ==
    (~viewerMounted /\ conversions = {})
        => \A k \in DOMAIN objectUrls : objectUrls[k] >= 1

RECURSIVE toolbarSteps(_, _, _)
toolbarSteps(s, forward, k) ==
    IF k = 0 THEN s
    ELSE toolbarSteps(IF forward THEN nextMatch(s, s.searchMatches, s.searchIndex)
                      ELSE prevMatch(s, s.searchMatches, s.searchIndex),
                      forward, k - 1)

\* the same steps through the object the host received
RECURSIVE hostSteps(_, _, _)
hostSteps(s, forward, k) ==
    IF k = 0 THEN s
    ELSE hostSteps(IF forward
                   THEN nextMatch(s, s.hostApi.searchMatches, s.hostApi.searchIndex)
                   ELSE prevMatch(s, s.hostApi.searchMatches, s.hostApi.searchIndex),
                   forward, k - 1)

ToolbarNavigationCircular ==
    LET s == PdfState
        n == Len(searchMatches)
    IN  /\ toolbarSteps(s, TRUE, n).searchIndex = searchIndex
        /\ toolbarSteps(s, FALSE, n).searchIndex = searchIndex
        /\ toolbarSteps(toolbarSteps(s, TRUE, 1), FALSE, 1).searchIndex = searchIndex

HostNavigationCircular ==
    LET s == PdfState
        n == Len(searchMatches)
    IN  /\ hostSteps(s, TRUE, n).searchIndex = searchIndex
        /\ hostSteps(s, FALSE, n).searchIndex = searchIndex
        /\ hostSteps(hostSteps(s, TRUE, 1), FALSE, 1).searchIndex = searchIndex

\* C11: with n > 0 matches published, n next-match steps bring the active
\* index back to where it was, so do n previous-match steps, and next-match
\* followed by previous-match leaves it where it was; through the toolbar and
\* through the object handed to the host alike.
C11_MatchNavigationIsCircular ==
    (mounted /\ Len(searchMatches) > 0)
        => /\ ToolbarNavigationCircular
           /\ hostApi.given => HostNavigationCircular

\* C12: a page whose text cannot be extracted counts as a page without a
\* match and the search goes on: once no extraction is in flight for a loaded
\* document and a non-empty query, the result for that query over all pages
\* of the document has been published.
C12_SearchSurvivesPageFailure ==
    (mounted /\ docLoaded /\ numPages > 0 /\ runs = {}
        /\ toLowerCase(trim(searchQuery)) # <<>>)
        => /\ published.some
           /\ published.query = toLowerCase(trim(searchQuery))
           /\ published.scanned = numPages

\* C13: while the query is empty after trimming, the match list is empty, the
\* active index is 0, every extraction still in flight has been invalidated
\* and none was started for an empty query: nothing is published.
C13_EmptyQueryClearsWithoutExtraction ==
    /\ \A r \in runs : r.query # <<>>
    /\ (mounted /\ toLowerCase(trim(searchQuery)) = <<>>)
          => /\ searchMatches = <<>>
             /\ searchIndex = 0
             /\ ~published.some
             /\ \A r \in runs : r.cancelled

\* a whitespace-only query was set while an extraction was in flight
C13_Witness ==
    /\ mounted /\ docLoaded
    /\ searchQuery = <<" ">>
    /\ searchMatches = <<>>
    /\ \E r \in runs : r.cancelled /\ r.pageNum > 1

(***************************************************************************)
(* Properties of conversion: the worker, the strategies, the error states. *)
(***************************************************************************)
\* C14: a .docx Blob with a conversion endpoint configured is sent to the
\* endpoint (a conversion is in flight or has settled), and the endpoint's
\* answer 500 "bad file" gives an error whose message contains "500" and
\* "bad file".
C14_DocxFailureBecomesConversionError ==
    /\ LET failure == convertViaWorker(ViewerState, BadFileReply)
       IN  /\ failure.failed
           /\ includes(failure.message, <<"500">>)
           /\ includes(failure.message, <<"bad file">>)
    /\ (viewerMounted /\ src = Docx1 /\ conversionWorkerUrl(ViewerState) # <<>>)
          => \/ conversions # {}
             \/ convertedPdfUrl # Null
             \/ conversionError # <<>>

\* the three kinds of answer, read off the response itself
AnswersPdf(res) ==
    ~res.network /\ res.status = "200" /\ res.contentType # <<>>
        /\ Head(res.contentType) = "application/pdf" /\ res.size > 0
AnswersUrl(res) ==
    ~res.network /\ res.status = "200" /\ res.contentType # <<>>
        /\ Head(res.contentType) = "application/json" /\ res.json = "url"

NoConversionPath ==
    /\ onRequestPdfConversion = Undefined
    /\ (~workerUrlOption.given \/ \A k \in DOMAIN workerUrlOption.text :
                                     workerUrlOption.text[k] = " ")

\* C16: while the source resolves to office-pdf and no conversion path is
\* configured, the office-pdf fallback renderer is mounted on the source, the
\* viewer is not converting, and no conversion is under way for it.
C16_FallbackWithoutConversionPath ==
    (viewerMounted /\ rendererKey(ViewerState) = "office-pdf" /\ NoConversionPath)
        => /\ rendered(ViewerState) =
                 [kind |-> "renderer", key |-> "office-pdf", src |-> url]
           /\ \A c \in conversions : c.cancelled

\* C17: each conversion attempt invokes one strategy: the host's converter
\* whenever one is configured, the worker only when none is (and then a
\* worker URL is); at most one attempt is live at a time.
C17_ConverterBeforeWorker ==
    LET live == {c \in conversions : ~c.cancelled}
    IN  /\ Cardinality(live) <= 1
        /\ \A c \in live :
              /\ c.via = "host" <=> onRequestPdfConversion # Undefined
              /\ c.via = "worker" <=>
                    (onRequestPdfConversion = Undefined
                        /\ conversionWorkerUrl(ViewerState) # <<>>)

\* both strategies are configured and the attempt under way is the host's
C17_Witness ==
    /\ viewerMounted
    /\ onRequestPdfConversion # Undefined
    /\ conversionWorkerUrl(ViewerState) # <<>>
    /\ \E c \in conversions : ~c.cancelled /\ c.via = "host"

\* C18: while a conversion error is recorded, or a conversion is required
\* and no converted URL is held, the viewer shows the error or the converting
\* notice: no renderer is mounted.
C18_NoRendererWhileFailedOrConverting ==
    (viewerMounted
        /\ (conversionError # <<>>
              \/ (shouldConvertOffice(ViewerState) /\ convertedPdfUrl = Null)))
        => /\ rendered(ViewerState).kind =
                 (IF conversionError # <<>> THEN "conversionError" ELSE "converting")
           /\ rendered(ViewerState).src = Null

\* a conversion failed while the PDF of an earlier one is still held
C18_Witness ==
    /\ viewerMounted
    /\ conversionError # <<>>
    /\ convertedPdfUrl # Null


\* C19: from every error state a retry triggered by the host restarts the
\* load from scratch: right after it no error and no converted PDF URL of
\* the failed attempt is held, and a source that needs conversion has a
\* conversion under way again.
C19_RetryRestartsFromScratch ==
    retried =>
        /\ conversionError = <<>>
        /\ convertedPdfUrl = Null
        /\ shouldConvertOffice(ViewerState) =>
               \E c \in conversions : ~c.cancelled /\ ~c.superseded

C21_ExplicitMimeAloneDecides ==
    (viewerMounted /\ mimeType # Undefined) =>
        \A d \in RouterSources :
            getRendererKey(d, mimeType, enableOCR) = routed(ViewerState)

\* C22: getRendererKey returns a key of the closed set {pdf, pdf-ocr, docx,
\* office-pdf, unsupported}, and "unsupported" whenever neither the MIME type
\* nor the extension is one of the mapped ones.
C22_KeyOfTheClosedSet ==
    viewerMounted =>
        /\ rendererKey(ViewerState)
               \in {"pdf", "pdf-ocr", "docx", "office-pdf", "unsupported"}
        /\ /\ mimeType = Undefined \/ MIME_TO_RENDERER(mimeType) = Undefined
           /\ ~src.string \/ EXT_TO_RENDERER(extensionOf(src)) = Undefined
           /\ ~src.blob \/ MIME_TO_RENDERER(src.type) = Undefined
           => rendererKey(ViewerState) = "unsupported"

C24_ReturnedMimeMatchesKey ==
    viewerMounted =>
        LET r == routed(ViewerState)
        IN  /\ r.rendererKey # "unsupported" =>
                   MIME_TO_RENDERER(r.mimeType)
                       = (IF r.rendererKey = "pdf-ocr" THEN "pdf" ELSE r.rendererKey)
            /\ r.rendererKey = "unsupported" =>
                   r.mimeType = (IF mimeType # Undefined THEN mimeType
                                 ELSE IF src.blob /\ src.type # "" THEN src.type
                                 ELSE Undefined)

\* C25: the registry behaves as a map: nothing is found for a key before its
\* first registration; hasRenderer is true exactly when getRendererFactory
\* returns a loader; and a registration of k makes getRendererFactory(k)
\* return the loader just registered and leaves every other key's result as
\* it was.
C25_RegistryIsAMap ==
    /\ \A k \in RendererKeys : getRendererFactory(registry, k) = Undefined
    /\ [](\A k \in RendererKeys :
              hasRenderer(registry, k) <=> getRendererFactory(registry, k) # Undefined)
    /\ [][\A k \in RendererKeys, f \in RendererFactories :
              RegisterRenderer(k, f) =>
                  /\ getRendererFactory(registry', k) = f
                  /\ \A j \in RendererKeys \ {k} :
                         getRendererFactory(registry', j)
                             = getRendererFactory(registry, j)]_vars
C25_Witness ==
    \E k, j \in RendererKeys :
        /\ hasRenderer(registry, k) /\ hasRenderer(registry, j)
        /\ getRendererFactory(registry, k) # getRendererFactory(registry, j)

(***************************************************************************)
(* Properties of the page view.                                            *)
(***************************************************************************)
\* C26: a zoom-in never lowers and a zoom-out never raises the effective
\* zoom, whatever the mode before the step, and after either step the zoom
\* value lies within [0.25, 5].
C26_ZoomStepsMonotonicAndBounded ==
    mounted =>
        /\ effectiveZoom(handleZoomIn(PdfState)) >= effectiveZoom(PdfState)
        /\ effectiveZoom(handleZoomOut(PdfState)) <= effectiveZoom(PdfState)
        /\ handleZoomIn(PdfState).zoom \in 25..500
        /\ handleZoomOut(PdfState).zoom \in 25..500

\* C27: in custom mode a step from a preset moves to the adjacent preset of
\* 0.5, 0.75, 1, 1.25, 1.5, 2, 3; beyond that range a step in either
\* direction changes the value by 0.25, within [0.25, 5].
C27_PresetStepsThenFixedIncrement ==
    (mounted /\ zoomMode = "custom") =>
        LET presets == <<50, 75, 100, 125, 150, 200, 300>>
            zoomIn == handleZoomIn(PdfState).zoom
            zoomOut == handleZoomOut(PdfState).zoom
        IN  /\ \A i \in 1..6 : zoom = presets[i] => zoomIn = presets[i + 1]
            /\ \A i \in 2..7 : zoom = presets[i] => zoomOut = presets[i - 1]
            /\ zoom >= 300 => zoomIn = Min(zoom + 25, 500)
            /\ zoom > 300 => zoomOut = zoom - 25
            /\ zoom <= 50 => zoomOut = Max(zoom - 25, 25)
            /\ zoom < 50 => zoomIn = zoom + 25

\* C28: the effective zoom passed to the pages is greater than 0 in every
\* state, in both modes.
C28_EffectiveZoomPositive ==
    mounted => effectiveZoom(PdfState) > 0

\* C29: a click on an anchor is intercepted (default prevented, a new
\* browsing context opened) exactly when its href is an absolute reference
\* with scheme http, https or mailto, whatever the scheme of the page.
C29_OnlyAbsoluteExternalLinksIntercepted ==
    lastClick.clicked =>
        LET external == /\ lastClick.valid
                        /\ lastClick.scheme \in {"http", "https", "mailto"}
        IN  /\ lastClick.opened <=> external
            /\ lastClick.prevented <=> external

\* C30: while the flag set by a programmatic scrollToPage is up, that is
\* within the 500 ms that follow the call, a page detection (the frame
\* callback of a scroll listener) never changes currentPage.
C30_NoDetectionDuringProgrammaticScroll ==
    [][(/\ scrollingToPage
        /\ \/ \E ratios \in [pageRefs(PdfState) -> 0..2] : AnimationFrame(ratios)
           \/ \E ratios \in [pageRefs(PdfState) -> 0..2], more \in BOOLEAN :
             StaleAnimationFrame(ratios, more))
       => currentPage' = currentPage]_vars


(***************************************************************************)
(* C31: once a run has been cancelled (a newer query, a change of page     *)
(* count, or unmount) the step in progress is its last: it asks for the    *)
(* text of no further page.                                                *)
(***************************************************************************)
C31_CancelledRunRequestsNoFurtherPage ==
    [][\A r \in runs, ok \in BOOLEAN :
          (r.cancelled /\ SearchStep(r, ok))
              => \A r2 \in runs' \ runs : ~r2.cancelled]_vars


(***************************************************************************)
(* C37: at any moment at most one page-detection evaluation is pending,    *)
(* also across a change of page count that re-installs the scroll          *)
(* listener: a frame callback of a removed listener and one of the         *)
(* installed listener are never pending together.                          *)
(***************************************************************************)
C37_AtMostOneDetectionPending ==
    mounted => ~(ticking /\ staleFramePending)


(***************************************************************************)
(* C38: a page-detection evaluation sets currentPage to a rendered page    *)
(* whose visible-height ratio is positive and the greatest of all rendered *)
(* pages, and leaves currentPage unchanged when no rendered page           *)
(* intersects the viewport.                                                *)
(***************************************************************************)
C38_DetectionPicksTheMostVisiblePage ==
    mounted =>
        \A ratios \in [pageRefs(PdfState) -> 0..2] :
            LET detected == detectPage(PdfState, visiblePage(PdfState, ratios)).currentPage
            IN  IF \E p \in pageRefs(PdfState) : ratios[p] > 0
                THEN /\ detected \in pageRefs(PdfState)
                     /\ ratios[detected] > 0
                     /\ \A p \in pageRefs(PdfState) : ratios[p] <= ratios[detected]
                ELSE detected = currentPage

\* a frame callback is pending on a 2-page document showing page 1, and with
\* page 2 the more visible its evaluation moves to page 2
C38_Witness ==
    /\ mounted /\ docLoaded /\ ticking
    /\ numPages = 2 /\ currentPage = 1
    /\ detectPage(PdfState, visiblePage(PdfState, <<1, 2>>)).currentPage = 2


(***************************************************************************)
(* C33: no render hands a renderer a converted PDF URL that was produced   *)
(* for another source: in the render that follows a change of src (new     *)
(* props, state as committed, effects not yet run) the converted URL is    *)
(* not the effective source.                                               *)
(***************************************************************************)
C33_ConvertedUrlOnlyRenderedForItsSource ==
    viewerMounted =>
        \A d \in {Docx1, Deck1} :
            (d # src /\ convertedPdfUrl # Null) =>
                LET first == rendered(normalizeSrcToUrl([ViewerState EXCEPT !.src = d]))
                IN  ~(first.kind = "renderer" /\ first.src = convertedPdfUrl)

(***************************************************************************)
(* C34: a conversion error does not outlive the attempt that produced it:  *)
(* when the live conversion of the current source succeeds, the viewer     *)
(* shows the renderer on the converted PDF and no conversion error.        *)
(***************************************************************************)
C34_SuccessReplacesEarlierConversionError ==
    [][\A c \in conversions, reply \in WorkerResponses :
          (/\ ~c.cancelled
           /\ ~convertViaWorker(ViewerState, reply).failed
           /\ ConversionSettles(c, reply))
              => /\ conversionError' = <<>>
                 /\ convertedPdfUrl' # Null]_vars

(***************************************************************************)
(* C35: a render error kept by the isolating boundary is cleared when the  *)
(* source or the renderer key changes: the boundary never holds the error  *)
(* of a renderer of another source or key than the current ones.           *)
(***************************************************************************)
C35_RenderErrorBelongsToCurrentSource ==
    (viewerMounted /\ boundaryError.some) =>
        /\ boundaryError.src = src
        /\ boundaryError.key = rendererKey(ViewerState)

C32_SupersededLoadNeverCommits ==
    [][\A l \in docx.loads, ok \in BOOLEAN :
          (l.cancelled /\ DocxLoadStep(l, ok))
              => /\ docx'.html = docx.html
                 /\ docx'.error = docx.error]_vars


(***************************************************************************)
(* C39, as stated: in page-fit mode the effective zoom always equals       *)
(* min((w - 48) / 794, 2) for the container's current width w; selecting a *)
(* numeric zoom (among them "actual size", 1), zoom-in or zoom-out         *)
(* switches the mode to custom, selecting "page fit" to pageFit.           *)
(* effectiveZoom is in units of 1/79400.                                   *)
(***************************************************************************)
C39_PageFitFollowsCurrentWidth ==
    mounted =>
        /\ zoomMode = "pageFit" =>
              effectiveZoom(PdfState) = Min((elementWidth - 48) * 100, 2 * 79400)
        /\ \A n \in {50, 100, 400} :
              handleZoomChange(PdfState, [fit |-> FALSE, n |-> n]).zoomMode = "custom"
        /\ handleZoomIn(PdfState).zoomMode = "custom"
        /\ handleZoomOut(PdfState).zoomMode = "custom"
        /\ handleZoomChange(PdfState, [fit |-> TRUE, n |-> 0]).zoomMode = "pageFit"

(***************************************************************************)
(* C39, amended: in page-fit mode, once the resize observer has delivered  *)
(* the notification it owes, the width the component holds is the          *)
(* container's current width w if w > 0, and the effective zoom is         *)
(* min((w - 48) / 794, 2); while the held width is 0 the effective zoom is *)
(* the zoom value.  The mode switches are as stated.                       *)
(***************************************************************************)
C39_PageFitFollowsReportedWidth ==
    mounted =>
        /\ (zoomMode = "pageFit" /\ ~resizePending /\ elementWidth > 0) =>
              /\ containerWidth = elementWidth
              /\ effectiveZoom(PdfState) = Min((elementWidth - 48) * 100, 2 * 79400)
        /\ (zoomMode = "pageFit" /\ containerWidth = 0) =>
              effectiveZoom(PdfState) = zoom * 794
        /\ \A n \in {50, 100, 400} :
              handleZoomChange(PdfState, [fit |-> FALSE, n |-> n]).zoomMode = "custom"
        /\ handleZoomIn(PdfState).zoomMode = "custom"
        /\ handleZoomOut(PdfState).zoomMode = "custom"
        /\ handleZoomChange(PdfState, [fit |-> TRUE, n |-> 0]).zoomMode = "pageFit"

\* back in page-fit mode after a resize made in custom mode, the observer has
\* reported the new width and the effective zoom is the clamp 2
C39_Witness ==
    /\ mounted /\ zoomMode = "pageFit" /\ ~resizePending
    /\ zoom # 100
    /\ elementWidth = 2000 /\ containerWidth = 2000
    /\ effectiveZoom(PdfState) = 2 * 79400


(***************************************************************************)
(* C40: the text-fragment transform marks exactly the occurrences found by *)
(* a case-insensitive, left-to-right, non-overlapping scan of the trimmed  *)
(* query in the fragment; the output with the markup removed is the        *)
(* fragment's text; the marks of a fragment on the active match's page     *)
(* carry the active highlight; a page highlight wraps the whole result     *)
(* and keeps the query marks.                                              *)
(***************************************************************************)
C40_TransformMarksExactlyTheOccurrences ==
    (mounted /\ trim(searchQuery) # <<>>) =>
        \A str \in { <<"a", "B">>, <<"x", "A", "b", "a", "b", "a">>, <<"<", "a", "b", "&">>,
                     <<"c">>, <<"U+0130", "a", "B">> } :
        \A pageNumber \in 1..2 :
            LET query == trim(searchQuery)
                active == /\ Len(searchMatches) > 0
                          /\ searchIndex < Len(searchMatches)
                          /\ searchMatches[searchIndex + 1] = pageNumber
                openTag == [kind |-> "span",
                            c |-> IF active THEN "search active" ELSE "search"]
                closeTag == [kind |-> "/span", c |-> ""]
                text(chars) == [i \in 1..Len(chars) |-> [kind |-> "text", c |-> chars[i]]]
                \* what a browser makes of the entities
                decoded(tokens) ==
                    [i \in 1..Len(tokens) |->
                        IF tokens[i].kind # "text" THEN tokens[i]
                        ELSE [kind |-> "text",
                              c |-> (CASE tokens[i].c = "&amp;" -> "&"
                                      [] tokens[i].c = "&lt;" -> "<"
                                      [] tokens[i].c = "&gt;" -> ">"
                                      [] tokens[i].c = "&quot;" -> "\""
                                      [] tokens[i].c = "&#039;" -> "'"
                                      [] OTHER -> tokens[i].c)]]
                RECURSIVE scan(_)
                scan(i) ==
                    IF i > Len(str) THEN <<>>
                    ELSE IF /\ i + Len(query) - 1 <= Len(str)
                            /\ toLowerCase(SubSeq(str, i, i + Len(query) - 1))
                                   = toLowerCase(query)
                    THEN <<openTag>> \o text(SubSeq(str, i, i + Len(query) - 1))
                         \o <<closeTag>> \o scan(i + Len(query))
                    ELSE text(<<str[i]>>) \o scan(i + 1)
                plain == customTextRenderer(PdfState, str, pageNumber, FALSE)
                wrapped == customTextRenderer(PdfState, str, pageNumber, TRUE)
            IN  /\ decoded(plain) = scan(1)
                /\ SelectSeq(decoded(plain), LAMBDA tk : tk.kind = "text") = text(str)
                /\ wrapped = << [kind |-> "span", c |-> "page"] >> \o plain \o <<closeTag>>

=============================================================================
